---- MODULE Spec2Model ----
(***************************************************************************)
(* Model of c2rust-refactor/src/transform/format.rs: the printf format     *)
(* string parser (Parser), the conversion record (Conv, with push_spec and *)
(* add_casts) and the driver build_format_macro.                           *)
(*                                                                         *)
(* Strings are sequences of one-character strings; byte offsets are        *)
(* 0-based as in the source, so byte p of s is s[p + 1].                   *)
(***************************************************************************)
EXTENDS Integers, Sequences, FiniteSets, TLC

\* ------------------------------------------------------------------ bounds
MaxLen == 4        \* longest format string over CoreChars
MaxShort == 3      \* longest format string over AllChars
MaxArgs == 2       \* most arguments following the format string
MaxIdx == 2        \* largest running index on entry to the callback (SpecCasts)

\* ------------------------------------------------------------- characters
NUL == "NUL"       \* the character "\0"
NL == "\n"
Digits == {"0", "1", "2", "3", "4", "5", "6", "7", "8", "9"}
CoreChars == {"%", "0", "5", "*", ".", "d", "s", "q", NL, NUL}
AllChars == CoreChars \cup {"u", "x", "X", "c"}

SeqsUpTo(A, n) == UNION {[1..k -> A] : k \in 0..n}
FormatStrings == SeqsUpTo(CoreChars, MaxLen) \cup SeqsUpTo(AllChars, MaxShort)

\* ------------------------------------------------------------------ types
\* enum CastType
CastType == {"Int", "Uint", "Usize", "Char", "Str"}
\* enum ConvType; Hex(bool) is "Hex(false)" / "Hex(true)"
ConvType == {"Int", "Uint", "Hex(false)", "Hex(true)", "Char", "Str"}
\* Option<Amount>: None, Some(Number(n)), Some(NextArg)
NoAmount == [tag |-> "None", n |-> 0]
NextArg == [tag |-> "NextArg", n |-> 0]
Number(k) == [tag |-> "Number", n |-> k]
\* Conv::new()
Conv_new == [ty |-> "Int", width |-> NoAmount, prec |-> NoAmount]
\* Piece::Text(&s[from..to]) and Piece::Conv(c); from/to record the bytes of
\* the input the parser consumed for the piece.
Text(t, a, b) == [kind |-> "Text", text |-> t, conv |-> Conv_new, from |-> a, to |-> b]
ConvPiece(c, a, b) == [kind |-> "Conv", text |-> <<>>, conv |-> c, from |-> a, to |-> b]
\* the macro is not built (yet, or ever after a panic)
NoMac == [path |-> "none", fmt |-> <<>>, args |-> <<>>]
EmptyCasts == [k \in {} |-> "Int"]

VARIABLES
    s,              \* the format string literal
    macro_name,     \* parameter macro_name
    ln_macro_name,  \* parameter ln_macro_name: "None" or the name
    fmt_args,       \* parameter fmt_args: fmt_args[1] is the format string
    pos,            \* Parser.pos
    new_s,          \* the output buffer
    casts,          \* HashMap<usize, CastType>
    idx,            \* the running argument index
    pieces,         \* the pieces passed to the callback so far, in order
    sel_name,       \* the macro name selected at lines 127-133
    mac,            \* the returned Mac, NoMac until build_format_macro returns
    pc              \* position in build_format_macro

vars == <<s, macro_name, ln_macro_name, fmt_args, pos, new_s, casts, idx,
          pieces, sel_name, mac, pc>>

\* ---------------------------------------------------------------- helpers
RECURSIVE Pow10(_)
Pow10(k) == IF k = 0 THEN 1 ELSE 10 * Pow10(k - 1)

DigitVal(c) == CHOOSE v \in 0..9 : <<"0","1","2","3","4","5","6","7","8","9">>[v + 1] = c

\* usize::from_str on a string of decimal digits: Err on the empty string
\* (and on a value above usize::MAX, which no string within MaxLen reaches).
RECURSIVE DecValue(_)
DecValue(ds) ==
    IF ds = <<>> THEN 0
    ELSE 10 * DecValue(SubSeq(ds, 1, Len(ds) - 1)) + DigitVal(ds[Len(ds)])

from_str(ds) ==
    IF ds = <<>> THEN [ok |-> FALSE, val |-> 0]
    ELSE [ok |-> TRUE, val |-> DecValue(ds)]

\* usize::to_string
RECURSIVE to_string(_)
to_string(n) ==
    IF n < 10 THEN << <<"0","1","2","3","4","5","6","7","8","9">>[n + 1] >>
    ELSE to_string(n \div 10) \o << <<"0","1","2","3","4","5","6","7","8","9">>[(n % 10) + 1] >>

\* s[a..b] of the source (bytes a .. b-1)
Slice(str, a, b) == SubSeq(str, a + 1, b)

\* ------------------------------------------------------------------- Conv
\* add_casts without the increment after the width entry
add_casts_noinc(self, i, tbl) ==
    LET ins(t, k, v) == [j \in (DOMAIN t) \cup {k} |-> IF j = k THEN v ELSE t[j]]
        t1 == IF self.width = NextArg THEN ins(tbl, i, "Usize") ELSE tbl
        t2 == IF self.prec = NextArg THEN ins(t1, i, "Usize") ELSE t1
        i2 == IF self.prec = NextArg THEN i + 1 ELSE i
        cast == CASE self.ty = "Int" -> "Int"
                  [] self.ty \in {"Uint", "Hex(false)", "Hex(true)"} -> "Uint"
                  [] self.ty = "Char" -> "Char"
                  [] self.ty = "Str" -> "Str"
    IN [idx |-> i2 + 1, casts |-> ins(t2, i2, cast)]

\* Conv::add_casts
add_casts(self, i, tbl) ==
    LET ins(t, k, v) == [j \in (DOMAIN t) \cup {k} |-> IF j = k THEN v ELSE t[j]]
        t1 == IF self.width = NextArg THEN ins(tbl, i, "Usize") ELSE tbl
        i1 == IF self.width = NextArg THEN i + 1 ELSE i
        t2 == IF self.prec = NextArg THEN ins(t1, i1, "Usize") ELSE t1
        i2 == IF self.prec = NextArg THEN i1 + 1 ELSE i1
        cast == CASE self.ty = "Int" -> "Int"
                  [] self.ty \in {"Uint", "Hex(false)", "Hex(true)"} -> "Uint"
                  [] self.ty = "Char" -> "Char"
                  [] self.ty = "Str" -> "Str"
    IN [idx |-> i2 + 1, casts |-> ins(t2, i2, cast)]

\* Conv::push_spec
push_spec(self, buf) ==
    LET amt(a) == IF a.tag = "Number" THEN to_string(a.n) ELSE <<"*">>
        w == IF self.width # NoAmount THEN amt(self.width) ELSE <<>>
        p == IF self.prec # NoAmount THEN <<".">> \o amt(self.prec) ELSE <<>>
        t == CASE self.ty = "Hex(false)" -> <<"x">>
               [] self.ty = "Hex(true)" -> <<"X">>
               [] OTHER -> <<>>
    IN buf \o <<"{", ":">> \o w \o p \o t \o <<"}">>

\* ----------------------------------------------------------------- Parser
\* Parser::peek at offset p: the byte, or a panic (index out of bounds)
InBounds(p) == p < Len(s)
peek(p) == s[p + 1]

\* str::find('%') on s[p..]: the offset of the first '%' at or after p
HasConv(p) == \E q \in p..(Len(s) - 1) : s[q + 1] = "%"
FindConv(p) == CHOOSE q \in p..(Len(s) - 1) :
                   /\ s[q + 1] = "%"
                   /\ \A r \in p..(q - 1) : s[r + 1] # "%"

\* the while loop of parse_amount: the offset where it stops, or a panic
\* when peek runs off the end of the string
RECURSIVE DigitsEnd(_)
DigitsEnd(p) ==
    IF ~InBounds(p) THEN [panic |-> TRUE, pos |-> p]
    ELSE IF peek(p) \in Digits THEN DigitsEnd(p + 1)
    ELSE [panic |-> FALSE, pos |-> p]

\* Parser::parse_amount, entered at offset p
parse_amount(p) ==
    IF ~InBounds(p) THEN [panic |-> TRUE, pos |-> p, amt |-> NoAmount]
    ELSE IF peek(p) = "*" THEN [panic |-> FALSE, pos |-> p + 1, amt |-> NextArg]
    ELSE LET e == DigitsEnd(p)
             n == from_str(Slice(s, p, e.pos))
         IN IF e.panic \/ ~n.ok THEN [panic |-> TRUE, pos |-> e.pos, amt |-> NoAmount]
            ELSE [panic |-> FALSE, pos |-> e.pos, amt |-> Number(n.val)]

\* the width test accepting any digit, 0 included
WidthStarts_anydigit(p) == peek(p) \in Digits \cup {"*"}

\* the test of line 402: does a width start at offset p
WidthStarts(p) == peek(p) \in (Digits \ {"0"}) \cup {"*"}

\* parse_conv_type falling back to Int on an unrecognized letter
parse_conv_type_lenient(p) ==
    IF ~InBounds(p) THEN [panic |-> TRUE, pos |-> p, ty |-> "Int"]
    ELSE LET c == peek(p)
         IN CASE c = "u" -> [panic |-> FALSE, pos |-> p + 1, ty |-> "Uint"]
              [] c = "x" -> [panic |-> FALSE, pos |-> p + 1, ty |-> "Hex(false)"]
              [] c = "X" -> [panic |-> FALSE, pos |-> p + 1, ty |-> "Hex(true)"]
              [] c = "c" -> [panic |-> FALSE, pos |-> p + 1, ty |-> "Char"]
              [] c = "s" -> [panic |-> FALSE, pos |-> p + 1, ty |-> "Str"]
              [] OTHER -> [panic |-> FALSE, pos |-> p + 1, ty |-> "Int"]

\* Parser::parse_conv_type, entered at offset p
parse_conv_type(p) ==
    IF ~InBounds(p) THEN [panic |-> TRUE, pos |-> p, ty |-> "Int"]
    ELSE LET c == peek(p)
         IN CASE c = "d" -> [panic |-> FALSE, pos |-> p + 1, ty |-> "Int"]
              [] c = "u" -> [panic |-> FALSE, pos |-> p + 1, ty |-> "Uint"]
              [] c = "x" -> [panic |-> FALSE, pos |-> p + 1, ty |-> "Hex(false)"]
              [] c = "X" -> [panic |-> FALSE, pos |-> p + 1, ty |-> "Hex(true)"]
              [] c = "c" -> [panic |-> FALSE, pos |-> p + 1, ty |-> "Char"]
              [] c = "s" -> [panic |-> FALSE, pos |-> p + 1, ty |-> "Str"]
              [] OTHER -> [panic |-> TRUE, pos |-> p + 1, ty |-> "Int"]

\* lines 402-410: the specifier whose '%' is at offset start and whose
\* first byte after the '%' is at offset p (in bounds, and not '%')
ParseSpecifier(start, p) ==
    LET w == IF WidthStarts(p) THEN parse_amount(p)
             ELSE [panic |-> FALSE, pos |-> p, amt |-> NoAmount]
        dot == ~w.panic /\ InBounds(w.pos) /\ peek(w.pos) = "."
        pr == IF dot THEN parse_amount(w.pos + 1)
              ELSE [panic |-> w.panic \/ ~InBounds(w.pos), pos |-> w.pos, amt |-> NoAmount]
        t == parse_conv_type(pr.pos)
    IN IF pr.panic \/ t.panic THEN [panic |-> TRUE, pos |-> pr.pos, out |-> <<>>]
       ELSE [panic |-> FALSE, pos |-> t.pos,
             out |-> <<ConvPiece([ty |-> t.ty, width |-> w.amt, prec |-> pr.amt], start, t.pos)>>]

\* next_conv without the conv_offset > 0 test
NextConvText_always(p) == <<Text(Slice(s, p, FindConv(p)), p, FindConv(p))>>

\* Parser::next_conv when it returns true: the Text piece it emits, if any
NextConvText(p) ==
    LET q == FindConv(p) IN IF q > p THEN <<Text(Slice(s, p, q), p, q)>> ELSE <<>>

\* the escape passed through as the two bytes it was
EscapedPercent_verbatim(q) == Text(<<"%", "%">>, q, q + 2)

\* line 398: the piece for an escaped percent whose first '%' is at offset q
EscapedPercent(q) == Text(<<"%">>, q, q + 2)

\* One iteration of the loop of Parser::parse, entered with pos = p when a
\* '%' lies at or after p: the pieces passed to the callback, the new pos,
\* and whether the iteration panicked.
ParseIteration(p) ==
    LET q == FindConv(p)
        txt == NextConvText(p)
        p1 == q + 1
    IN IF ~InBounds(p1) THEN [panic |-> TRUE, pos |-> p1, out |-> txt]
       ELSE IF peek(p1) = "%"
            THEN [panic |-> FALSE, pos |-> p1 + 1, out |-> txt \o <<EscapedPercent(q)>>]
       ELSE LET r == ParseSpecifier(q, p1)
            IN [panic |-> r.panic, pos |-> r.pos, out |-> txt \o r.out]

\* --------------------------------------------------- build_format_macro
\* the callback closure of lines 116-121, applied to one piece
Callback(st, piece) ==
    IF piece.kind = "Text"
    THEN [new_s |-> st.new_s \o piece.text, idx |-> st.idx, casts |-> st.casts]
    ELSE LET r == add_casts(piece.conv, st.idx, st.casts)
         IN [new_s |-> push_spec(piece.conv, st.new_s), idx |-> r.idx, casts |-> r.casts]

RECURSIVE CallbackAll(_, _)
CallbackAll(st, ps) ==
    IF ps = <<>> THEN st ELSE CallbackAll(Callback(st, Head(ps)), Tail(ps))

\* the counter started at one
IdxStart_one == 1 + 0

\* the initial value of idx, line 115
IdxStart == 0

\* an if in place of the while: one NUL popped
StripTrailingNul_once(buf) ==
    IF buf # <<>> /\ buf[Len(buf)] = NUL THEN SubSeq(buf, 1, Len(buf) - 1) ELSE buf

\* lines 124-126
RECURSIVE StripTrailingNul(_)
StripTrailingNul(buf) ==
    IF buf # <<>> /\ buf[Len(buf)] = NUL
    THEN StripTrailingNul(SubSeq(buf, 1, Len(buf) - 1))
    ELSE buf

\* line 127 without the ln_macro_name.is_some() test
UseLnMacro_anyname(buf, ln) == buf # <<>> /\ buf[Len(buf)] = NL

\* the test of line 127
UseLnMacro(buf, ln) == buf # <<>> /\ buf[Len(buf)] = NL /\ ln # "None"

\* arguments without a table entry passed through uncoerced
RECURSIVE MacroArgs_passthrough(_, _, _)
MacroArgs_passthrough(args, tbl, i) ==
    IF i >= Len(args) - 1 THEN <<>>
    ELSE <<[cast |-> IF i \in DOMAIN tbl THEN tbl[i] ELSE "none", e |-> args[i + 2]]>>
         \o MacroArgs_passthrough(args, tbl, i + 1)

\* lines 144-150: the arguments pushed after the format string
RECURSIVE MacroArgs(_, _, _)
MacroArgs(args, tbl, i) ==
    IF i >= Len(args) - 1 THEN <<>>
    ELSE (IF i \in DOMAIN tbl THEN <<[cast |-> tbl[i], e |-> args[i + 2]]>> ELSE <<>>)
         \o MacroArgs(args, tbl, i + 1)

\* the callers: ConvertFormatArgs passes ("format_args", None),
\* ConvertPrintfs passes ("print", Some("println")) or ("eprint", Some("eprintln"))
Callers == {<<"format_args", "None">>, <<"print", "println">>}
\* fmt_args: the format string expression (0) then n argument expressions 1..n
ArgLists == {[i \in 1..(n + 1) |-> i - 1] : n \in 0..MaxArgs}

Init ==
    /\ s \in FormatStrings
    /\ \E c \in Callers : macro_name = c[1] /\ ln_macro_name = c[2]
    /\ fmt_args \in ArgLists
    /\ pos = 0
    /\ new_s = <<>>
    /\ casts = EmptyCasts
    /\ idx = IdxStart
    /\ pieces = <<>>
    /\ sel_name = "none"
    /\ mac = NoMac
    /\ pc = "parse"

\* one iteration of the while loop of Parser::parse (lines 392-411)
ParseLoop ==
    /\ pc = "parse"
    /\ HasConv(pos)
    /\ LET r == ParseIteration(pos)
           st == CallbackAll([new_s |-> new_s, idx |-> idx, casts |-> casts], r.out)
       IN /\ pos' = r.pos
          /\ pieces' = pieces \o r.out
          /\ new_s' = st.new_s
          /\ idx' = st.idx
          /\ casts' = st.casts
          /\ pc' = IF r.panic THEN "panicked" ELSE "parse"
    /\ UNCHANGED <<s, macro_name, ln_macro_name, fmt_args, sel_name, mac>>

\* next_conv returns false: the loop ends, lines 413-415 emit the rest
ParseEnd ==
    /\ pc = "parse"
    /\ ~HasConv(pos)
    /\ LET out == IF pos < Len(s) THEN <<Text(Slice(s, pos, Len(s)), pos, Len(s))>> ELSE <<>>
           st == CallbackAll([new_s |-> new_s, idx |-> idx, casts |-> casts], out)
       IN /\ pieces' = pieces \o out
          /\ new_s' = st.new_s
          /\ idx' = st.idx
          /\ casts' = st.casts
    /\ pc' = "strip"
    /\ UNCHANGED <<s, macro_name, ln_macro_name, fmt_args, pos, sel_name, mac>>

\* lines 124-126
StripNul ==
    /\ pc = "strip"
    /\ new_s' = StripTrailingNul(new_s)
    /\ pc' = "select"
    /\ UNCHANGED <<s, macro_name, ln_macro_name, fmt_args, pos, casts, idx, pieces, sel_name, mac>>

\* lines 127-133
SelectMacro ==
    /\ pc = "select"
    /\ IF UseLnMacro(new_s, ln_macro_name)
       THEN /\ new_s' = SubSeq(new_s, 1, Len(new_s) - 1)
            /\ sel_name' = ln_macro_name
       ELSE /\ new_s' = new_s
            /\ sel_name' = macro_name
    /\ pc' = "args"
    /\ UNCHANGED <<s, macro_name, ln_macro_name, fmt_args, pos, casts, idx, pieces, mac>>

\* lines 135-151
BuildMac ==
    /\ pc = "args"
    /\ mac' = [path |-> sel_name, fmt |-> new_s, args |-> MacroArgs(fmt_args, casts, 0)]
    /\ pc' = "done"
    /\ UNCHANGED <<s, macro_name, ln_macro_name, fmt_args, pos, new_s, casts, idx, pieces, sel_name>>

Next == ParseLoop \/ ParseEnd \/ StripNul \/ SelectMacro \/ BuildMac

Spec == Init /\ [][Next]_vars

TypeOK ==
    /\ pos \in 0..(Len(s) + 1)
    /\ DOMAIN casts = IdxStart..(idx - 1)
    /\ pc \in {"parse", "panicked", "strip", "select", "args", "done"}

\* ------------------------------------------------------------ the callback alone
\* The closure of lines 116-121 applied to one Conv piece, from any running
\* index up to MaxIdx and any table the earlier specifiers can have built
\* (its keys are 0 .. idx-1 and its last entry is a value entry).
Amounts == {NoAmount, NextArg, Number(5)}
Convs == [ty : ConvType, width : Amounts, prec : Amounts]

InitCasts ==
    /\ s = <<>>
    /\ macro_name = "format_args"
    /\ ln_macro_name = "None"
    /\ fmt_args = <<0>>
    /\ pos = 0
    /\ new_s = <<>>
    /\ idx \in 0..MaxIdx
    /\ casts \in [0..(idx - 1) -> CastType]
    /\ idx > 0 => casts[idx - 1] # "Usize"
    /\ pieces = <<>>
    /\ sel_name = "none"
    /\ mac = NoMac
    /\ pc = "callback"

CallbackConv ==
    /\ pc = "callback"
    /\ \E c \in Convs :
          LET piece == ConvPiece(c, 0, 0)
              st == Callback([new_s |-> new_s, idx |-> idx, casts |-> casts], piece)
          IN /\ pieces' = <<piece>>
             /\ new_s' = st.new_s
             /\ idx' = st.idx
             /\ casts' = st.casts
    /\ pc' = "returned"
    /\ UNCHANGED <<s, macro_name, ln_macro_name, fmt_args, pos, sel_name, mac>>

NextCasts == CallbackConv

SpecCasts == InitCasts /\ [][NextCasts]_vars

\* ================================================================= claims
EndsWith(q, c) == q # <<>> /\ q[Len(q)] = c
NoPercent(str) == \A i \in 1..Len(str) : str[i] # "%"
\* Parser::parse returned
ParsedOK == pc \in {"strip", "select", "args", "done"}
TypeLetterKind == ("d" :> "Int" @@ "u" :> "Uint" @@ "x" :> "Hex(false)" @@
                   "X" :> "Hex(true)" @@ "c" :> "Char" @@ "s" :> "Str")
TypeLetters == DOMAIN TypeLetterKind
\* the number a digit string denotes
RECURSIVE Denotes(_)
Denotes(ds) ==
    IF ds = <<>> THEN 0
    ELSE DigitVal(Head(ds)) * Pow10(Len(ds) - 1) + Denotes(Tail(ds))
\* u is t with its trailing NULs, and nothing else, removed
IsNulStripped(t, u) ==
    /\ Len(u) <= Len(t)
    /\ u = SubSeq(t, 1, Len(u))
    /\ \A i \in (Len(u) + 1)..Len(t) : t[i] = NUL
    /\ ~EndsWith(u, NUL)

\* ---- C1
\* C1 as stated: index 0 is never a key of the coercion table; "%d" gives
\* exactly {1 -> Int} and "%.*s" gives exactly {1 -> Usize, 2 -> Str}.
C1_CounterStartsAtOne ==
    pc = "done" =>
        /\ 0 \notin DOMAIN casts
        /\ (s = <<"%", "d">> => casts = (1 :> "Int"))
        /\ (s = <<"%", ".", "*", "s">> => casts = (1 :> "Usize" @@ 2 :> "Str"))

\* C1 amended: the counter starts at 0 (it is 0 and the table is empty until
\* the first Conv piece), the keys of the table are exactly 0 .. idx-1, "%d"
\* gives exactly {0 -> Int} and "%.*s" gives exactly {0 -> Usize, 1 -> Str}.
C1_CounterStartsAtZero ==
    /\ (\A i \in 1..Len(pieces) : pieces[i].kind = "Text") => (idx = 0 /\ DOMAIN casts = {})
    /\ DOMAIN casts = 0..(idx - 1)
    /\ pc = "done" =>
        /\ (s = <<"%", "d">> => casts = (0 :> "Int"))
        /\ (s = <<"%", ".", "*", "s">> => casts = (0 :> "Usize" @@ 1 :> "Str"))

C1_Witness ==
    pc = "done" /\ s = <<"%", ".", "*", "s">> /\ casts = (0 :> "Usize" @@ 1 :> "Str")

\* ---- C2
\* C2: one call of add_casts from running index i inserts, at consecutive
\* indices from i, an AsUsize entry iff the width is NextArg, then an AsUsize
\* entry iff the precision is NextArg, then one entry for the value mapped
\* by kind; the index advances by the number of entries inserted and no
\* earlier entry changes.
C2_AddCastsOrder ==
    [][(pc = "callback" /\ pc' = "returned") =>
        LET c == pieces'[1].conv
            w == IF c.width = NextArg THEN 1 ELSE 0
            p == IF c.prec = NextArg THEN 1 ELSE 0
            value == CASE c.ty = "Int" -> "Int"
                       [] c.ty = "Uint" -> "Uint"
                       [] c.ty = "Hex(false)" -> "Uint"
                       [] c.ty = "Hex(true)" -> "Uint"
                       [] c.ty = "Char" -> "Char"
                       [] c.ty = "Str" -> "Str"
        IN /\ idx' = idx + w + p + 1
           /\ idx' - idx \in {1, 2, 3}
           /\ DOMAIN casts' = (DOMAIN casts) \cup (idx..(idx' - 1))
           /\ \A k \in DOMAIN casts : casts'[k] = casts[k]
           /\ (w = 1 => casts'[idx] = "Usize")
           /\ (p = 1 => casts'[idx + w] = "Usize")
           /\ casts'[idx + w + p] = value]_vars

C2_Witness ==
    /\ pc = "returned"
    /\ pieces[1].conv = [ty |-> "Char", width |-> NextArg, prec |-> NextArg]
    /\ casts = (0 :> "Int" @@ 1 :> "Str" @@ 2 :> "Usize" @@ 3 :> "Usize" @@ 4 :> "Char")
    /\ idx = 5

\* ---- C3
\* the input is k bytes of text without '%', then '%', a non-empty run of
\* decimal digits, and a type letter that ends the string
WidthSpecAt(k) ==
    /\ k + 3 <= Len(s)
    /\ NoPercent(SubSeq(s, 1, k))
    /\ s[k + 1] = "%"
    /\ \A i \in (k + 2)..(Len(s) - 1) : s[i] \in Digits
    /\ s[Len(s)] \in TypeLetters
WidthSpecPieces(k) ==
    (IF k > 0 THEN <<Text(SubSeq(s, 1, k), 0, k)>> ELSE <<>>) \o
    <<ConvPiece([ty |-> TypeLetterKind[s[Len(s)]],
                 width |-> Number(Denotes(SubSeq(s, k + 2, Len(s) - 1))),
                 prec |-> NoAmount], k, Len(s))>>

\* C3 as stated: any non-empty digit run after '%', one beginning with 0
\* included, is a width: the parse never fails and emits one Conv piece with
\* that literal width and the kind of the type letter.
C3_AnyDigitRunIsWidth ==
    \A k \in 0..Len(s) :
        WidthSpecAt(k) => /\ pc # "panicked"
                          /\ (ParsedOK => pieces = WidthSpecPieces(k))

\* C3 amended: a non-empty digit run after '%' whose first digit is 1-9 is
\* consumed greedily as the width and the specifier is never a parse error;
\* a digit run beginning with 0 is not a width and the parse fails on it.
C3_WidthStartsNonZero ==
    \A k \in 0..Len(s) :
        WidthSpecAt(k) =>
            IF s[k + 2] # "0"
            THEN /\ pc # "panicked"
                 /\ (ParsedOK => pieces = WidthSpecPieces(k))
            ELSE /\ ~ParsedOK
                 /\ (pos > k => pc = "panicked")

C3_Witness ==
    /\ pc = "done"
    /\ s = <<"%", "5", "0", "d">>
    /\ pieces = <<ConvPiece([ty |-> "Int", width |-> Number(50), prec |-> NoAmount], 0, 4)>>

\* ---- C4
C4_Cover ==
    ParsedOK =>
        /\ \A i \in 1..Len(pieces) : pieces[i].from < pieces[i].to
        /\ (pieces = <<>>) <=> (s = <<>>)
        /\ pieces # <<>> => (pieces[1].from = 0 /\ pieces[Len(pieces)].to = Len(s))
        /\ \A i \in 1..(Len(pieces) - 1) : pieces[i].to = pieces[i + 1].from
        /\ \A i \in 1..Len(pieces) :
              pieces[i].kind = "Text" =>
                  \/ pieces[i].text = Slice(s, pieces[i].from, pieces[i].to)
                  \/ /\ pieces[i].text = <<"%">>
                     /\ Slice(s, pieces[i].from, pieces[i].to) = <<"%", "%">>

\* C4: when the parse does not fail, the pieces passed to the callback cover
\* the input with non-empty, adjacent spans from offset 0 to its length (a
\* Text("%") piece covering "%%"); pos never decreases and strictly
\* increases on every loop iteration.
C4_PiecesCoverInput ==
    /\ []C4_Cover
    /\ [][/\ pos' >= pos
          /\ (pc = "parse" /\ (\E q \in (pos + 1)..Len(s) : s[q] = "%")) => pos' > pos]_vars

C4_Witness ==
    /\ pc = "done"
    /\ Len(pieces) = 3
    /\ pieces[1].kind = "Text" /\ pieces[1].to = 1
    /\ pieces[2] = Text(<<"%">>, 1, 3)
    /\ pieces[3].kind = "Text"

BadSpecifier(t) ==
    /\ t # <<>>
    /\ t[1] = "%"
    /\ \/ Len(t) = 1
       \/ /\ Len(t) >= 2
          /\ t[2] \notin TypeLetters \cup Digits \cup {"*", ".", "%"}
       \/ /\ Len(t) >= 2
          /\ t[2] \in Digits \ {"0"}
          /\ \E j \in 3..(Len(t) + 1) :
                /\ \A i \in 3..(j - 1) : t[i] \in Digits
                /\ j <= Len(t) => t[j] \notin TypeLetters \cup Digits \cup {"."}
WellFormedPiece ==
    {<<"q">>, <<NL>>, <<"%", "%">>, <<"%", "d">>, <<"%", "s">>, <<"%", "X">>,
     <<"%", "5", "d">>, <<"%", "*", "s">>, <<"%", ".", "5">> \o <<"s">>}
WellFormedPrefix ==
    {<<>>} \cup WellFormedPiece \cup {a \o b : a \in WellFormedPiece, b \in WellFormedPiece}

\* C6: a format string with a '%' that no well-formed specifier follows ends
\* in the fatal outcome, however many well-formed pieces precede it: no
\* macro, no rendered string and no argument list is returned.
C6_BadSpecifierIsFatal ==
    /\ pc = "panicked" => mac = NoMac
    /\ \A k \in 0..Len(s) :
          (SubSeq(s, 1, k) \in WellFormedPrefix /\ BadSpecifier(SubSeq(s, k + 1, Len(s)))) =>
              /\ mac = NoMac
              /\ pc \in {"parse", "panicked"}
              /\ (pos > k => pc = "panicked")

C6_Witness ==
    /\ pc = "panicked"
    /\ s = <<"q", "%", "d", "%">>
    /\ Len(pieces) = 2
    /\ mac = NoMac

C8_OnlyNulsRemoved ==
    (pc = "done" /\ NoPercent(s)) =>
        /\ IsNulStripped(s, mac.fmt)
        /\ DOMAIN casts = {}

\* C8 amended: for a format string without '%' the table is empty and the
\* rendered string is the input with its trailing NULs removed and, when a
\* newline-variant name is supplied and what remains ends with a newline,
\* that one newline removed as well.
C8_NulsAndFoldedNewlineRemoved ==
    (pc = "done" /\ NoPercent(s)) =>
        /\ DOMAIN casts = {}
        /\ \E k \in 0..Len(s) :
              LET u == SubSeq(s, 1, k)
              IN /\ IsNulStripped(s, u)
                 /\ IF ln_macro_name # "None" /\ EndsWith(u, NL)
                    THEN mac.fmt \o <<NL>> = u
                    ELSE mac.fmt = u

C8_Witness ==
    /\ pc = "done"
    /\ s = <<"q", NUL, NUL>>
    /\ mac.fmt = <<"q">>

\* ---- C9
\* C9: a loop iteration that meets the escape "%%" at the specifier start
\* appends to the buffer the text before it and exactly one '%', leaves the
\* running index unchanged and adds no entry to the table.
C9_EscapedPercent ==
    [][\A q \in pos..(Len(s) - 2) :
          (/\ pc = "parse"
           /\ NoPercent(Slice(s, pos, q))
           /\ s[q + 1] = "%"
           /\ s[q + 2] = "%") =>
              /\ new_s' = new_s \o Slice(s, pos, q) \o <<"%">>
              /\ idx' = idx
              /\ casts' = casts
              /\ pos' = q + 2
              /\ pc' = "parse"]_vars

C9_Witness ==
    /\ pc = "done"
    /\ s = <<"%", "d", "%", "%">>
    /\ mac.fmt = <<"{", ":", "}", "%">>
    /\ idx = 1

\* ---- C10
\* C10 as stated: the rendered string of a successful conversion never ends
\* with a NUL, with or without a newline-variant name.
C10_NeverEndsWithNul ==
    pc = "done" => ~EndsWith(mac.fmt, NUL)

\* C10 amended: the buffer never ends with a NUL right after NUL stripping,
\* and the rendered string never ends with a NUL when the plain variant is
\* selected (when the newline variant is selected a NUL that preceded the
\* folded newline is left at the end).
C10_NoTrailingNulUnlessFolded ==
    /\ pc = "select" => ~EndsWith(new_s, NUL)
    /\ (pc = "done" /\ mac.path = macro_name) => ~EndsWith(mac.fmt, NUL)

C10_Witness ==
    /\ pc = "done"
    /\ s = <<"%", "d", NL, NUL>>
    /\ mac.path = macro_name
    /\ mac.fmt = <<"{", ":", "}", NL>>
====
